---- MODULE Spec2Model ----
(***************************************************************************)
(* The /mcp JSON-RPC dispatcher of the Freshdesk MCP server                *)
(* (src/src/freshdesk_mcp/server.py, create_http_app.mcp_handler), the     *)
(* tool registry it reads and the inputSchema it derives from each tool's  *)
(* signature.                                                              *)
(*                                                                         *)
(* JSON values are written as strings.  A key that a JSON object does not  *)
(* carry is Absent; Python's None (JSON null) is None.                     *)
(***************************************************************************)
EXTENDS Integers, Sequences, FiniteSets, TLC

VARIABLES
    tool_manager,       \* mcp._tool_manager, as hasattr and attribute access see it
    tool_manager_tools, \* mcp._tool_manager._tools: the keys, in insertion order
    request,            \* the body of the request handled last
    upstream,           \* what the Freshdesk API did during that request
    response,           \* what mcp_handler produced for it
    invoked,            \* the tool whose run() that request called, or None
    failed,             \* the tool whose tools/call ended in a -32603 error last, or None
    firstList,          \* the tools array of the first tools/list answer
    nLists,             \* tools/list requests answered so far
    sinceList,          \* requests of other kinds handled since the first tools/list
    environ,            \* os.environ, the variables the server reads
    http,               \* the HTTP request received last: its path and bearer credentials
    process,            \* the server process: where it is, sys.argv, its exit status
    tasks,              \* the requests in flight on the event loop, in arrival order
    stdin,              \* the bridge's standard input: the lines not read yet
    stdout,             \* the bridge's standard output: the lines printed
    bridge              \* the bridge process: where it is, how many lines it has read

vars == <<tool_manager, tool_manager_tools, request, upstream, response, invoked, failed,
          firstList, nLists, sinceList, environ, http, process, tasks, stdin, stdout,
          bridge>>

\* the bridge runs in a process of its own
bridgeVars == <<stdin, stdout, bridge>>

\* what a route of the HTTP app leaves alone
serverVars == <<process, tasks, bridgeVars>>

\* what mcp_handler leaves alone
otherVars == <<environ, http, serverVars>>

\* ------------------------------------------------------------------ bounds
MaxLists == 2        \* tools/list requests followed
MaxSinceList == 1    \* other requests counted after the first tools/list

\* requests in flight at once
MaxTasks == 2

\* lines on the bridge's stdin
MaxLines == 2

\* ------------------------------------------------------------------ values
Absent == "<absent>"
None == "<None>"

\* dict.get(key, default): the default only when the key is missing
get(value, default) == IF value = Absent THEN default ELSE value

\* str(v) as the f-strings of mcp_handler apply it
str(v) == IF v = None THEN "None" ELSE v

\* inspect.Parameter.empty
Parameter_empty == "<empty>"

\* A value whose `==` gives no truth value (an array: "The truth value of an
\* array with more than one element is ambiguous"), as an annotation or as a
\* default.
Ambiguous == "<array([1, 2])>"

\* A description that is truthy and not text (an int): description[:200] raises.
NotText == "<42>"

\* --------------------------------------------------------------- the tools
\* One parameter of a handler's signature.
Param(name, annotation, default) ==
    [name |-> name, annotation |-> annotation, default |-> default]

\* The @mcp.tool() handlers, as FastMCP's Tool objects: the name, the
\* description (the docstring, "" when there is none), the signature of fn,
\* how the body treats a failing upstream call, and whether
\* inspect.signature(fn) succeeds.
get_ticket_fields ==
    [name |-> "get_ticket_fields",
     description |-> "Get ticket fields from Freshdesk.",
     parameters |-> <<>>,
     body |-> "unguarded", returns |-> "dict", inspectable |-> TRUE]

get_tickets ==
    [name |-> "get_tickets",
     description |-> "Get tickets from Freshdesk with pagination support.",
     parameters |-> <<Param("page", "Optional[int]", "1"),
                      Param("per_page", "Optional[int]", "30")>>,
     body |-> "guarded", returns |-> "dict", inspectable |-> TRUE]

create_ticket ==
    [name |-> "create_ticket",
     description |-> "Create a ticket in Freshdesk",
     parameters |-> <<Param("subject", "str", Parameter_empty),
                      Param("description", "str", Parameter_empty),
                      Param("source", "Union[int, str]", Parameter_empty),
                      Param("priority", "Union[int, str]", Parameter_empty),
                      Param("status", "Union[int, str]", Parameter_empty),
                      Param("email", "Optional[str]", None),
                      Param("requester_id", "Optional[int]", None),
                      Param("custom_fields", "Optional[Dict[str, Any]]", None),
                      Param("additional_fields", "Optional[Dict[str, Any]]", None)>>,
     body |-> "guarded", returns |-> "str", inspectable |-> TRUE]

list_solution_folders ==
    [name |-> "list_solution_folders",
     description |-> "",
     parameters |-> <<Param("category_id", "int", Parameter_empty)>>,
     body |-> "unguarded", returns |-> "list", inspectable |-> TRUE]

view_company ==
    [name |-> "view_company",
     description |-> "Get a company in Freshdesk.",
     parameters |-> <<Param("company_id", "int", Parameter_empty)>>,
     body |-> "guarded", returns |-> "dict", inspectable |-> TRUE]

\* Tools a registry can also hold, one for each path of the per-tool loop of
\* tools/list that no handler of this module takes: the branches of the type
\* mapping that the module's annotations do not reach, and the three except
\* clauses.
every_type ==
    [name |-> "every_type",
     description |-> "A parameter of every kind of annotation.",
     parameters |-> <<Param("self", "int", Parameter_empty),
                      Param("ratio", "float", Parameter_empty),
                      Param("flag", "bool", "False"),
                      Param("fields", "dict", Parameter_empty),
                      Param("items", "list", Parameter_empty),
                      Param("anything", "List[Any]", Parameter_empty),
                      Param("ids", "List[int]", Parameter_empty),
                      Param("bare", Parameter_empty, Parameter_empty),
                      Param("maybe_ratio", "Optional[float]", None),
                      Param("maybe_flag", "Optional[bool]", None),
                      Param("maybe_items", "Optional[List[Any]]", None),
                      Param("maybe_ids", "Optional[List[int]]", None),
                      Param("either", "Union[int, str]", None)>>,
     body |-> "unguarded", returns |-> "dict", inspectable |-> TRUE]

\* `param.default == inspect.Parameter.empty` raises at the second parameter
array_default ==
    [name |-> "array_default",
     description |-> "A default that cannot be compared.",
     parameters |-> <<Param("first", "float", Parameter_empty),
                      Param("second", "list", Ambiguous),
                      Param("third", "bool", Parameter_empty)>>,
     body |-> "unguarded", returns |-> "dict", inspectable |-> TRUE]

\* `param_type == int` raises at the second parameter
array_annotation ==
    [name |-> "array_annotation",
     description |-> "An annotation that cannot be compared.",
     parameters |-> <<Param("first", "int", Parameter_empty),
                      Param("second", Ambiguous, Parameter_empty),
                      Param("third", "str", Parameter_empty)>>,
     body |-> "unguarded", returns |-> "dict", inspectable |-> TRUE]

\* inspect.signature(fn) raises
no_signature ==
    [name |-> "no_signature",
     description |-> "A callable without a signature.",
     parameters |-> <<Param("value", "int", Parameter_empty)>>,
     body |-> "unguarded", returns |-> "dict", inspectable |-> FALSE]

\* description[:200] raises
numeric_description ==
    [name |-> "numeric_description",
     description |-> NotText,
     parameters |-> <<Param("value", "int", Parameter_empty)>>,
     body |-> "unguarded", returns |-> "dict", inspectable |-> TRUE]

\* The Tool object registered under a name.
Tool(name) ==
    CASE name = "get_ticket_fields" -> get_ticket_fields
      [] name = "get_tickets" -> get_tickets
      [] name = "create_ticket" -> create_ticket
      [] name = "list_solution_folders" -> list_solution_folders
      [] name = "view_company" -> view_company
      [] name = "every_type" -> every_type
      [] name = "array_default" -> array_default
      [] name = "array_annotation" -> array_annotation
      [] name = "no_signature" -> no_signature
      [] name = "numeric_description" -> numeric_description

\* The keys of the registry after the module has been imported: registration
\* order is definition order.
RegisteredTools ==
    <<"get_ticket_fields", "get_tickets", "create_ticket",
      "list_solution_folders", "view_company">>

\* tool_name in mcp._tool_manager._tools
ToolNames(tools) == {tools[i] : i \in 1..Len(tools)}

\* mcp._tool_manager._tools[tool_name]
Lookup(tools, tool_name) == Tool(tool_name)

\* ------------------------------------------------- inputSchema extraction
\* typing's _name and __args__[0] of an annotation
IsOptional(annotation) ==
    /\ Len(annotation) > 10
    /\ SubSeq(annotation, 1, 9) = "Optional["

OptionalArg(annotation) == SubSeq(annotation, 10, Len(annotation) - 1)

\* a comparison of this value inside an `if` raises
CompareRaises(value) == value = Ambiguous

\* the if/elif chain on a plain type
PlainType(t) ==
    CASE t = "int" -> "integer"
      [] t = "float" -> "number"
      [] t = "bool" -> "boolean"
      [] t \in {"dict", "Dict[str, Any]"} -> "object"
      [] t \in {"list", "List[Any]"} -> "array"
      [] OTHER -> "string"

\* a slip: Optional not unwrapped
json_type_without_unwrap(annotation) == PlainType(annotation)

json_type(annotation) ==
    IF IsOptional(annotation) THEN PlainType(OptionalArg(annotation))
    ELSE PlainType(annotation)

\* a slip: no parameter is skipped
Properties_with_self(parameters) ==
    [k \in 1..Len(parameters) |->
        [name |-> parameters[k].name, type |-> "string"]]

\* the loop over sig.parameters: 'self' and 'cls' are skipped, every other
\* parameter gets a property, and one without a default is also required.
\* The loop is inside the try: an exception at one parameter ends it, before
\* the property is written when the type mapping raised, after it when the
\* comparison of the default raised.
RECURSIVE Properties(_)
Properties(parameters) ==
    IF parameters = <<>> THEN <<>>
    ELSE LET p == Head(parameters) IN
         IF p.name \in {"self", "cls"} THEN Properties(Tail(parameters))
         ELSE IF CompareRaises(p.annotation) THEN <<>>
         ELSE <<[name |-> p.name, type |-> json_type(p.annotation)]>>
              \o (IF CompareRaises(p.default) THEN <<>>
                  ELSE Properties(Tail(parameters)))

\* a slip: a default of None counted as no default
IsRequired_NoneIsMissing(p) == p.default \in {Parameter_empty, None}

IsRequired(p) == p.default = Parameter_empty

RECURSIVE Required(_)
Required(parameters) ==
    IF parameters = <<>> THEN <<>>
    ELSE LET p == Head(parameters) IN
         IF p.name \in {"self", "cls"} THEN Required(Tail(parameters))
         ELSE IF CompareRaises(p.annotation) \/ CompareRaises(p.default) THEN <<>>
         ELSE (IF IsRequired(p) THEN <<p.name>> ELSE <<>>)
              \o Required(Tail(parameters))

\* the inner try: what input_schema holds when the except clause is reached
\* is what the loop had written; nothing when inspect.signature raised
input_schema(tool_obj) ==
    IF ~tool_obj.inspectable
    THEN [type |-> "object", properties |-> <<>>, required |-> <<>>]
    ELSE [type |-> "object",
          properties |-> Properties(tool_obj.parameters),
          required |-> Required(tool_obj.parameters)]

\* description[:200]
Slice200(s) == IF Len(s) <= 200 THEN s ELSE SubSeq(s, 1, 200)

\* doc or f"Tool: {name}"
Description(tool_obj) ==
    IF tool_obj.description # "" THEN tool_obj.description
    ELSE "Tool: " \o tool_obj.name

ToolEntry(tool_obj) ==
    [name |-> tool_obj.name,
     description |-> Slice200(Description(tool_obj)),
     inputSchema |-> input_schema(tool_obj)]

\* the outer try of the loop: an exception outside the inner try reaches
\* `except Exception: continue`, and the tool gets no entry
EntryRaises(tool_obj) == Description(tool_obj) = NotText

\* the tools array of a tools/list answer
ToolsArray(items) ==
    LET appended == SelectSeq(items, LAMBDA name : ~EntryRaises(Tool(name)))
    IN  [i \in 1..Len(appended) |-> ToolEntry(Tool(appended[i]))]


\* --------------------------------------------------------- response frames
\* A result object: its keys, and the value under each key it can carry.
NoServerInfo == [name |-> Absent, version |-> Absent]

NoResult ==
    [keys |-> {}, protocolVersion |-> Absent, capabilities |-> {},
     serverInfo |-> NoServerInfo, tools |-> <<>>, content |-> <<>>,
     prompts |-> <<>>]

\* {"protocolVersion": client_version, "capabilities": {"tools": {},
\*  "prompts": {}}, "serverInfo": {"name": "freshdesk-mcp", "version": "1.2.0"}}
InitializeResult(client_version) ==
    [NoResult EXCEPT !.keys = {"protocolVersion", "capabilities", "serverInfo"},
                     !.protocolVersion = client_version,
                     !.capabilities = {"tools", "prompts"},
                     !.serverInfo = [name |-> "freshdesk-mcp", version |-> "1.2.0"]]

\* {"tools": tools}
ToolsResult(tools) == [NoResult EXCEPT !.keys = {"tools"}, !.tools = tools]

\* {"content": [{"type": "text", "text": text}]}
ContentResult(text) ==
    [NoResult EXCEPT !.keys = {"content"},
                     !.content = <<[type |-> "text", text |-> text]>>]

\* {"prompts": []}
PromptsResult == [NoResult EXCEPT !.keys = {"prompts"}]

NoError == [code |-> 0, message |-> Absent]

NoFrame == [keys |-> {}, id |-> Absent, result |-> NoResult, error |-> NoError]

\* {"jsonrpc": "2.0", "id": msg_id, "result": result}
ResultFrame(msg_id, result) ==
    [keys |-> {"jsonrpc", "id", "result"}, id |-> msg_id, result |-> result,
     error |-> NoError]

\* a slip: an error frame that also carries "result": null
ErrorFrame_with_null_result(msg_id, code, message) ==
    [keys |-> {"jsonrpc", "id", "result", "error"}, id |-> msg_id,
     result |-> NoResult, error |-> [code |-> code, message |-> message]]

\* {"jsonrpc": "2.0", "id": msg_id, "error": {"code": code, "message": message}}
ErrorFrame(msg_id, code, message) ==
    [keys |-> {"jsonrpc", "id", "error"}, id |-> msg_id, result |-> NoResult,
     error |-> [code |-> code, message |-> message]]

\* return JSONResponse(content=...)
JSONResponse(content) ==
    [kind |-> "JSONResponse", status_code |-> 200, content |-> content]

\* return Response(status_code=204)
Response204 == [kind |-> "Response", status_code |-> 204, content |-> NoFrame]

\* an exception leaves mcp_handler: no frame is produced, and the ASGI server
\* answers 500
Escapes == [kind |-> "raise", status_code |-> 500, content |-> NoFrame]

\* before any request
NoResponse == [kind |-> "none", status_code |-> 0, content |-> NoFrame]

\* a 200 answer carrying an error of code -32603
IsExecutionError(resp) ==
    /\ resp.kind = "JSONResponse"
    /\ "error" \in resp.content.keys
    /\ resp.content.error.code = -32603

\* ------------------------------------------------------- running a handler
Returned(pytype, value) == [raised |-> FALSE, pytype |-> pytype, value |-> value]
Raised(message) == [raised |-> TRUE, pytype |-> "exception", value |-> message]

Upstream == {"ok", "http_error", "connect_error"}

\* ------------------------------------------------------------ create_ticket
\* The arguments of create_ticket that it validates, each as its JSON text:
\* 7 is the number, '7' the string, None is null.
TicketArgs(email, requester_id, source, priority, status) ==
    [email |-> email, requester_id |-> requester_id, source |-> source,
     priority |-> priority, status |-> status]

\* json.dumps of an arguments object, and the arguments object of a text
dumps(a) ==
    "{email: " \o a.email \o ", requester_id: " \o a.requester_id
        \o ", source: " \o a.source \o ", priority: " \o a.priority
        \o ", status: " \o a.status \o "}"

TicketArguments ==
    {TicketArgs(email, requester_id, source, priority, status) :
        email \in {None, "''", "'a@b.c'"},
        requester_id \in {None, "0", "42"},
        source \in {"1", "'2'", "4", "'phone'"},
        priority \in {"1", "'4'", "'high'"},
        status \in {"2", "'5'", "1"}}

\* "complete": arguments that name every required parameter of the tool
\* called, with values its validations accept
CompleteArguments == TicketArgs("'a@b.c'", None, "1", "1", "2")

\* json.loads, on the texts dumps produces
Parsed ==
    [text \in {dumps(a) : a \in TicketArguments} |->
        CHOOSE a \in TicketArguments : dumps(a) = text]

loads(text) == IF text = "complete" THEN CompleteArguments ELSE Parsed[text]

\* `not value`
Falsy(value) == value \in {None, "''", "0"}

\* the characters of a str value, or the digits of a number
Characters(value) ==
    IF SubSeq(value, 1, 1) = "'" THEN SubSeq(value, 2, Len(value) - 1) ELSE value

DigitValue(ch) ==
    CASE ch = "0" -> 0 [] ch = "1" -> 1 [] ch = "2" -> 2 [] ch = "3" -> 3
      [] ch = "4" -> 4 [] ch = "5" -> 5 [] ch = "6" -> 6 [] ch = "7" -> 7
      [] ch = "8" -> 8 [] ch = "9" -> 9 [] OTHER -> -1

RECURSIVE Decimal(_)
Decimal(digits) ==
    IF Len(digits) = 0 THEN 0
    ELSE 10 * Decimal(SubSeq(digits, 1, Len(digits) - 1))
         + DigitValue(SubSeq(digits, Len(digits), Len(digits)))

\* int(value): ValueError unless the characters are decimal digits
IntRaises(value) ==
    LET chars == Characters(value)
    IN  \/ Len(chars) = 0
        \/ \E k \in 1..Len(chars) : DigitValue(SubSeq(chars, k, k)) < 0

int(value) == Decimal(Characters(value))

\* [e.value for e in TicketSource], ... TicketStatus, ... TicketPriority
TicketSource == {1, 2, 3, 7, 9, 10}
TicketStatus == {2, 3, 4, 5}
TicketPriority == {1, 2, 3, 4}

\* the validations, in the order of the body; what is returned when one fails
MissingRequester(a) == Falsy(a.email) /\ Falsy(a.requester_id)

NotIntegers(a) == IntRaises(a.source) \/ IntRaises(a.priority) \/ IntRaises(a.status)

NotMembers(a) ==
    \/ int(a.source) \notin TicketSource
    \/ int(a.priority) \notin TicketPriority
    \/ int(a.status) \notin TicketStatus

\* a slip: the values are checked before the requester
create_ticket_values_first(tool_args, up) ==
    LET a == loads(tool_args) IN
    IF NotIntegers(a)
    THEN Returned("str", "Error: Invalid value for source, priority, or status")
    ELSE IF NotMembers(a)
    THEN Returned("str", "Error: Invalid value for source, priority, or status")
    ELSE IF MissingRequester(a)
    THEN Returned("str", "Error: Either email or requester_id must be provided")
    ELSE IF up = "ok" THEN Returned("str", "Ticket created successfully")
    ELSE IF up = "http_error"
         THEN Returned("str", "Error: Failed to create ticket - HTTPStatusError")
    ELSE Returned("str", "Error: An unexpected error occurred - ConnectError")

create_ticket_fn(tool_args, up) ==
    LET a == loads(tool_args) IN
    IF MissingRequester(a)
    THEN Returned("str", "Error: Either email or requester_id must be provided")
    ELSE IF NotIntegers(a)
    THEN Returned("str", "Error: Invalid value for source, priority, or status")
    ELSE IF NotMembers(a)
    THEN Returned("str", "Error: Invalid value for source, priority, or status")
    ELSE IF up = "ok" THEN Returned("str", "Ticket created successfully")
    ELSE IF up = "http_error"
         THEN Returned("str", "Error: Failed to create ticket - HTTPStatusError")
    ELSE Returned("str", "Error: An unexpected error occurred - ConnectError")

\* whether the body gets to its HTTP request
Sends(tool_obj, tool_args) ==
    tool_obj.name = "create_ticket" =>
        LET a == loads(tool_args)
        IN  ~MissingRequester(a) /\ ~NotIntegers(a) /\ ~NotMembers(a)

\* The body of a handler.  A guarded body wraps its HTTP call in try/except
\* and returns the failure as a value; an unguarded one has no try, so a
\* connection error propagates and a non-2xx reply is returned as parsed.
fn(tool_obj, tool_args, up) ==
    IF tool_obj.body = "unguarded" THEN
        IF up = "connect_error" THEN Raised("ConnectError")
        ELSE IF up = "http_error" THEN Returned("dict", "{error body}")
        ELSE Returned(tool_obj.returns, "{data}")
    ELSE IF tool_obj.name = "create_ticket" THEN create_ticket_fn(tool_args, up)
    ELSE
        IF up = "ok" THEN Returned("dict", "{data}")
        ELSE IF up = "http_error"
             THEN Returned("dict", "{error: Failed to fetch - HTTPStatusError}")
        ELSE Returned("dict", "{error: An unexpected error occurred - ConnectError}")

\* the arguments name every parameter that has no default
ArgsBind(tool_obj, tool_args) ==
    \/ tool_args # "{}"
    \/ \A i \in 1..Len(tool_obj.parameters) :
           tool_obj.parameters[i].default # Parameter_empty

\* await tool_obj.run(tool_args): the call fails before the body runs when
\* the arguments do not bind to the signature
run(tool_obj, tool_args, up) ==
    IF ~ArgsBind(tool_obj, tool_args)
    THEN Raised("Error executing tool " \o tool_obj.name)
    ELSE fn(tool_obj, tool_args, up)

\* whether run() reaches the upstream API
Contacts(tools, tool_name, tool_args) ==
    /\ tool_name \in ToolNames(tools)
    /\ ArgsBind(Lookup(tools, tool_name), tool_args)
    /\ Sends(Lookup(tools, tool_name), tool_args)

\* json.dumps(result, indent=2, default=str) for a dict or list, else str(result)
json_dumps(value) == "json:" \o value

\* a slip: str() applied to whatever the handler returned
result_text_str_only(result) == str(result.value)

result_text(result) ==
    IF result.pytype \in {"dict", "list"} THEN json_dumps(result.value)
    ELSE str(result.value)

\* ------------------------------------------------------------- mcp_handler
\* mcp._tool_manager: the manager FastMCP creates, or what the guards of the
\* two branches that read it provide for: no such attribute, None, and an
\* object without _tools
ToolManager == "ToolManager"
NoAttribute == "<no attribute>"
NoTools == "<no _tools>"

\* What one branch hands back: the HTTP response, the tool whose run() it
\* called, and the registry it leaves behind.
Outcome(resp, tool_name, tools) ==
    [response |-> resp, invoked |-> tool_name, tools |-> tools]

\* a value that cannot be a dict key: `tool_name in _tools` raises TypeError
Unhashable(value) == value \in {"['view_company']"}

\* a slip: the outer handler answers with a null id
outer_except_null_id(body, bound, e, tools) ==
    IF bound /\ body.json # "object" THEN Outcome(Escapes, None, tools)
    ELSE Outcome(JSONResponse(ErrorFrame(None, -32603, "Internal error: " \o e)),
                 None, tools)

\* except Exception as e (outer): the id is read from `message` again when
\* that name is bound, and `message` need not be a dict
outer_except(body, bound, e, tools) ==
    IF bound /\ body.json # "object" THEN Outcome(Escapes, None, tools)
    ELSE Outcome(JSONResponse(ErrorFrame(IF bound THEN get(body.id, None) ELSE None,
                                         -32603, "Internal error: " \o e)),
                 None, tools)

\* a slip: the server answers with the version it knows
initialize_fixed_version(body, msg_id, params, tools) ==
    IF params.kind # "dict"
    THEN outer_except(body, TRUE, "'list' object has no attribute 'get'", tools)
    ELSE Outcome(JSONResponse(ResultFrame(msg_id, InitializeResult("2024-11-05"))),
                 None, tools)

\* method == "initialize"
initialize(body, msg_id, params, tools) ==
    IF params.kind # "dict"
    THEN outer_except(body, TRUE, "'list' object has no attribute 'get'", tools)
    ELSE Outcome(JSONResponse(ResultFrame(msg_id,
             InitializeResult(get(params.protocolVersion, "2024-11-05")))),
                 None, tools)

\* a slip: the notification acknowledged with an empty success
notifications_initialized_empty_result(tools) ==
    Outcome(JSONResponse(ResultFrame(None, NoResult)), None, tools)

\* method == "notifications/initialized"
notifications_initialized(tools) == Outcome(Response204, None, tools)

\* a slip: a tool whose last call failed is left out of the enumeration
tool_items_hiding_failed(tools) == SelectSeq(tools, LAMBDA name : name # failed)

\* tool_items = list(mcp._tool_manager._tools.items())
tool_items(tools) == tools

\* a slip: the registry read outside any try, so that a manager that cannot
\* be read ends in the handler's outer except
tools_list_unguarded(msg_id, tools) ==
    IF tool_manager \in {None, NoTools}
    THEN Outcome(JSONResponse(ErrorFrame(msg_id, -32603,
             "Internal error: object has no attribute '_tools'")), None, tools)
    ELSE Outcome(JSONResponse(ResultFrame(msg_id,
             ToolsResult(IF tool_manager = ToolManager
                         THEN ToolsArray(tool_items(tools)) ELSE <<>>))),
                 None, tools)

\* a slip: the loop takes the entries out of the registry as it lists them
tools_list_consuming(msg_id, tools) ==
    Outcome(JSONResponse(ResultFrame(msg_id,
        ToolsResult(IF tool_manager = ToolManager
                    THEN ToolsArray(tool_items(tools)) ELSE <<>>))), None, <<>>)

\* method == "tools/list": the loop runs when the guard
\* `hasattr(mcp, '_tool_manager') and mcp._tool_manager and
\* mcp._tool_manager._tools` is true; when it is false, or raises into
\* `except Exception` (no _tools attribute), the array stays empty
tools_list(msg_id, tools) ==
    Outcome(JSONResponse(ResultFrame(msg_id,
        ToolsResult(IF tool_manager = ToolManager
                    THEN ToolsArray(tool_items(tools)) ELSE <<>>))), None, tools)

\* a slip: no except around run(), the handler's exception leaves the branch
tools_call_try_uncaught(msg_id, tool_name, tool_args, tools, up) ==
    IF Unhashable(tool_name) THEN
        [response |-> JSONResponse(ErrorFrame(msg_id, -32603,
             "Tool execution error: unhashable type: 'list'")),
         invoked |-> None]
    ELSE IF tool_name \in ToolNames(tools) THEN
        LET result == run(Lookup(tools, tool_name), tool_args, up) IN
        [response |->
            IF result.raised THEN Escapes
            ELSE JSONResponse(ResultFrame(msg_id,
                     ContentResult(result_text(result)))),
         invoked |-> tool_name]
    ELSE
        [response |-> JSONResponse(ErrorFrame(msg_id, -32601,
             "Tool not found: " \o str(tool_name))),
         invoked |-> None]

\* the inner try of the tools/call branch:
\* `hasattr(mcp, '_tool_manager') and tool_name in mcp._tool_manager._tools`
tools_call_try(msg_id, tool_name, tool_args, tools, up) ==
    IF tool_manager = NoAttribute THEN
        [response |-> JSONResponse(ErrorFrame(msg_id, -32601,
             "Tool not found: " \o str(tool_name))),
         invoked |-> None]
    ELSE IF tool_manager # ToolManager THEN
        [response |-> JSONResponse(ErrorFrame(msg_id, -32603,
             "Tool execution error: object has no attribute '_tools'")),
         invoked |-> None]
    ELSE IF Unhashable(tool_name) THEN
        [response |-> JSONResponse(ErrorFrame(msg_id, -32603,
             "Tool execution error: unhashable type: 'list'")),
         invoked |-> None]
    ELSE IF tool_name \in ToolNames(tools) THEN
        LET result == run(Lookup(tools, tool_name), tool_args, up) IN
        [response |->
            IF result.raised
            THEN JSONResponse(ErrorFrame(msg_id, -32603,
                     "Tool execution error: " \o str(result.value)))
            ELSE JSONResponse(ResultFrame(msg_id,
                     ContentResult(result_text(result)))),
         invoked |-> tool_name]
    ELSE
        [response |-> JSONResponse(ErrorFrame(msg_id, -32601,
             "Tool not found: " \o str(tool_name))),
         invoked |-> None]

\* a slip: a tool whose run() failed is dropped from the registry
tools_call_evicting(body, msg_id, params, tools, up) ==
    IF params.kind # "dict"
    THEN outer_except(body, TRUE, "'list' object has no attribute 'get'", tools)
    ELSE LET t == tools_call_try(msg_id, get(params.name, None),
                                 get(params.arguments, "{}"), tools, up)
         IN  Outcome(t.response, t.invoked,
                     IF t.invoked # None /\ IsExecutionError(t.response)
                     THEN SelectSeq(tools, LAMBDA name : name # t.invoked)
                     ELSE tools)

\* method == "tools/call"
tools_call(body, msg_id, params, tools, up) ==
    IF params.kind # "dict"
    THEN outer_except(body, TRUE, "'list' object has no attribute 'get'", tools)
    ELSE LET t == tools_call_try(msg_id, get(params.name, None),
                                 get(params.arguments, "{}"), tools, up)
         IN  Outcome(t.response, t.invoked, tools)

\* The @mcp.prompt() templates of the module.
RegisteredPrompts == <<"create_ticket_prompt", "create_reply">>

\* a slip: the prompts the module registers are listed
prompts_list_from_registry(msg_id, tools) ==
    Outcome(JSONResponse(ResultFrame(msg_id,
        [PromptsResult EXCEPT !.prompts = RegisteredPrompts])), None, tools)

\* method == "prompts/list"
prompts_list(msg_id, tools) ==
    Outcome(JSONResponse(ResultFrame(msg_id, PromptsResult)), None, tools)

\* a slip: an unknown method reported as an internal error
method_not_found_as_internal(msg_id, method, tools) ==
    Outcome(JSONResponse(ErrorFrame(msg_id, -32603,
                "Internal error: " \o str(method))), None, tools)

\* else
method_not_found(msg_id, method, tools) ==
    Outcome(JSONResponse(ErrorFrame(msg_id, -32601,
                "Method not found: " \o str(method))), None, tools)

\* params = message.get("params", {})
EmptyDict ==
    [kind |-> "dict", protocolVersion |-> Absent, name |-> Absent,
     arguments |-> Absent]

params_of(body) == IF body.params.kind = Absent THEN EmptyDict ELSE body.params

mcp_handler(body, tools, up) ==
    IF body.json = "invalid"
    THEN outer_except(body, FALSE, "Expecting value", tools)
    ELSE IF body.json # "object"
    THEN outer_except(body, TRUE, "object has no attribute 'get'", tools)
    ELSE LET method == get(body.method, None)
             params == params_of(body)
             msg_id == get(body.id, None)
         IN  CASE method = "initialize" -> initialize(body, msg_id, params, tools)
               [] method = "notifications/initialized" -> notifications_initialized(tools)
               [] method = "tools/list" -> tools_list(msg_id, tools)
               [] method = "tools/call" -> tools_call(body, msg_id, params, tools, up)
               [] method = "prompts/list" -> prompts_list(msg_id, tools)
               [] OTHER -> method_not_found(msg_id, method, tools)

\* ---------------------------------------------------------------- requests
Ids == {Absent, "7", "req-1"}

ParamsAbsent ==
    [kind |-> Absent, protocolVersion |-> Absent, name |-> Absent,
     arguments |-> Absent]

\* "params": [] -- a JSON value that is not an object
ParamsList ==
    [kind |-> "list", protocolVersion |-> Absent, name |-> Absent,
     arguments |-> Absent]

InitializeParams ==
    {ParamsAbsent, ParamsList} \cup
    {[EmptyDict EXCEPT !.protocolVersion = v] :
        v \in {Absent, "2025-01-01", "2025-06-18"}}

CallNames ==
    ToolNames(RegisteredTools) \cup {Absent, "nonexistent", "['view_company']"}

CallParams ==
    {ParamsAbsent, ParamsList} \cup
    {[EmptyDict EXCEPT !.name = n, !.arguments = a] :
        n \in CallNames, a \in {Absent, "complete"}}

OtherParams == {ParamsAbsent, ParamsList}

OtherMethods == {Absent, "resources/list", "notifications/cancelled"}

ObjectBody(method, id, params) ==
    [json |-> "object", method |-> method, id |-> id, params |-> params]

\* a body that is not a JSON object: invalid JSON, an array, a number
OtherBody(json) ==
    [json |-> json, method |-> Absent, id |-> Absent, params |-> ParamsAbsent]

NoRequest == OtherBody("none")

\* The bodies posted, by the branch of mcp_handler that answers them.
BadBodies == {OtherBody(json) : json \in {"invalid", "array", "number"}}

InitializeBodies ==
    {ObjectBody("initialize", id, params) : id \in Ids, params \in InitializeParams}

NotificationBodies ==
    {ObjectBody("notifications/initialized", id, params) :
        id \in Ids, params \in OtherParams}

ListBodies ==
    {ObjectBody("tools/list", id, params) : id \in Ids, params \in OtherParams}

CallBodies ==
    {ObjectBody("tools/call", id, params) : id \in Ids, params \in CallParams}

PromptsBodies ==
    {ObjectBody("prompts/list", id, params) : id \in Ids, params \in OtherParams}

UnknownBodies ==
    {ObjectBody(method, id, params) :
        method \in OtherMethods, id \in Ids, params \in OtherParams}

\* ------------------------------------------------------------------ actions
\* os.environ: the Freshdesk credentials checked at import, and the two
\* variables create_http_app reads
Environ(api_key, domain, mcp_api_key, require_auth) ==
    [FRESHDESK_API_KEY |-> api_key, FRESHDESK_DOMAIN |-> domain,
     MCP_API_KEY |-> mcp_api_key, MCP_REQUIRE_AUTH |-> require_auth]

\* a deployment whose /mcp needs no credentials
OpenEnviron == Environ("key", "example.freshdesk.com", Absent, "false")

HttpRequest(path, credentials) == [path |-> path, credentials |-> credentials]

NoHttpRequest == HttpRequest("none", Absent)

\* the server process; `pc` is "import" while the module body runs up to the
\* check of the environment, "checked" after it, "registering" while the
\* decorators run, "serving" inside mcp.run or uvicorn.run, "exited" after
\* sys.exit
Process(pc, argv, status) == [pc |-> pc, argv |-> argv, status |-> status]

\* the exit status of a process that has not exited
Running == -1

\* python -m freshdesk_mcp.server --http, up and serving
ServingHttp == Process("serving", <<"--http">>, Running)

\* the bridge not started
BridgeInit ==
    /\ stdin = <<>>
    /\ stdout = <<>>
    /\ bridge = [pc |-> "none", read |-> 0, posted |-> 0, handled |-> 0,
                 line |-> "", reply |-> [raised |-> Absent, status_code |-> 0,
                                         text |-> ""]]

ServerInit ==
    /\ process = ServingHttp
    /\ tasks = <<>>
    /\ BridgeInit

OtherInit ==
    /\ environ = OpenEnviron
    /\ http = NoHttpRequest
    /\ ServerInit

\* the module imported and no request handled yet
DispatcherInit ==
    /\ tool_manager = ToolManager
    /\ tool_manager_tools = RegisteredTools
    /\ request = NoRequest
    /\ upstream = "none"
    /\ response = NoResponse
    /\ invoked = None
    /\ failed = None
    /\ firstList = <<>>
    /\ nLists = 0
    /\ sinceList = 0

Init == DispatcherInit /\ OtherInit

\* mcp_handler called with `body`, while the upstream API behaves as `up`
Dispatch(body, up) ==
    LET out == mcp_handler(body, tool_manager_tools, up)
        isList == body.json = "object" /\ body.method = "tools/list"
    IN  /\ isList => nLists < MaxLists
        /\ request' = body
        /\ upstream' = up
        /\ response' = out.response
        /\ invoked' = out.invoked
        /\ tool_manager' = tool_manager
        /\ tool_manager_tools' = out.tools
        /\ failed' = IF out.invoked # None /\ IsExecutionError(out.response)
                     THEN out.invoked ELSE failed
        /\ nLists' = IF isList THEN nLists + 1 ELSE nLists
        /\ firstList' = IF isList /\ nLists = 0
                        THEN out.response.content.result.tools ELSE firstList
        /\ sinceList' = IF ~isList /\ nLists > 0 /\ sinceList < MaxSinceList
                        THEN sinceList + 1 ELSE sinceList

\* POST /mcp with `body`, past verify_api_key
Handle(body, up) == Dispatch(body, up) /\ UNCHANGED otherVars

BadBody == \E body \in BadBodies : Handle(body, "none")

Initialize == \E body \in InitializeBodies : Handle(body, "none")

NotificationsInitialized == \E body \in NotificationBodies : Handle(body, "none")

ToolsList == \E body \in ListBodies : Handle(body, "none")

\* the upstream API is reached only when run() gets to the handler's body
ToolsCall ==
    \E body \in CallBodies :
        \E up \in IF Contacts(tool_manager_tools, get(params_of(body).name, None),
                              get(params_of(body).arguments, "{}"))
                  THEN Upstream ELSE {"none"} :
            Handle(body, up)

PromptsList == \E body \in PromptsBodies : Handle(body, "none")

UnknownMethod == \E body \in UnknownBodies : Handle(body, "none")

Next ==
    \/ BadBody
    \/ Initialize
    \/ NotificationsInitialized
    \/ ToolsList
    \/ ToolsCall
    \/ PromptsList
    \/ UnknownMethod

Spec == Init /\ [][Next]_vars

\* ------------------------------------------------- any registry at start-up
\* mcp_handler reads the registry through hasattr, getattr and three nested
\* try blocks, and so provides for registries other than the one this
\* module's registrations build.  These are the registries it provides for.
ProbeTools ==
    <<"get_ticket_fields", "every_type", "array_default", "array_annotation",
      "no_signature", "numeric_description", "view_company">>

Registries ==
    {[manager |-> ToolManager, tools |-> RegisteredTools],
     [manager |-> ToolManager, tools |-> <<>>],
     [manager |-> ToolManager, tools |-> ProbeTools],
     [manager |-> NoAttribute, tools |-> <<>>],
     [manager |-> None, tools |-> <<>>],
     [manager |-> NoTools, tools |-> <<>>]}

InitAnyRegistry ==
    /\ \E registry \in Registries :
          /\ tool_manager = registry.manager
          /\ tool_manager_tools = registry.tools
    /\ request = NoRequest
    /\ upstream = "none"
    /\ response = NoResponse
    /\ invoked = None
    /\ failed = None
    /\ firstList = <<>>
    /\ nLists = 0
    /\ sinceList = 0
    /\ OtherInit

\* the two branches of mcp_handler that read the registry
NextAnyRegistry ==
    \/ ToolsList
    \/ ToolsCall

SpecAnyRegistry == InitAnyRegistry /\ [][NextAnyRegistry]_vars

\* ------------------------------------------- tools/call of create_ticket
\* create_ticket called with every combination of the values it validates
TicketBodies ==
    {ObjectBody("tools/call", "7",
         [EmptyDict EXCEPT !.name = "create_ticket", !.arguments = dumps(a)]) :
        a \in TicketArguments}

CreateTicket ==
    \E body \in TicketBodies :
        \E up \in IF Contacts(tool_manager_tools, body.params.name,
                              body.params.arguments)
                  THEN Upstream ELSE {"none"} :
            Handle(body, up)

NextCreateTicket == CreateTicket

SpecCreateTicket == Init /\ [][NextCreateTicket]_vars

\* ------------------------------------------------- the authentication gate
\* str.lower(), on the letters the settings below are spelled with
lower_char(c) ==
    CASE c = "T" -> "t"
      [] c = "R" -> "r"
      [] c = "U" -> "u"
      [] c = "E" -> "e"
      [] c = "F" -> "f"
      [] c = "A" -> "a"
      [] c = "L" -> "l"
      [] c = "S" -> "s"
      [] OTHER -> c

RECURSIVE lower(_)
lower(text) ==
    IF text = "" THEN ""
    ELSE lower_char(SubSeq(text, 1, 1)) \o lower(SubSeq(text, 2, Len(text)))

\* MCP_API_KEY = os.getenv("MCP_API_KEY")
MCP_API_KEY(env) == env.MCP_API_KEY

\* REQUIRE_AUTH = os.getenv("MCP_REQUIRE_AUTH", "true").lower() == "true"
REQUIRE_AUTH(env) == lower(get(env.MCP_REQUIRE_AUTH, "true")) = "true"

\* raise HTTPException(status_code=..., detail=...)
HTTPException(status_code, detail) ==
    [kind |-> "HTTPException", status_code |-> status_code, content |-> NoFrame,
     detail |-> detail]

\* what the dependency hands the route: it returned True, or it raised
Authorized == [ok |-> TRUE, raised |-> NoResponse]
Denied(exception) == [ok |-> FALSE, raised |-> exception]

\* a slip: an empty or unset MCP_API_KEY lets every request through
verify_api_key_without_key_check(env, credentials) ==
    IF ~REQUIRE_AUTH(env) THEN Authorized
    ELSE IF MCP_API_KEY(env) \in {Absent, ""} THEN Authorized
    ELSE IF credentials = Absent
    THEN Denied(HTTPException(401, "Authorization header required"))
    ELSE IF credentials # MCP_API_KEY(env)
    THEN Denied(HTTPException(401, "Invalid API key"))
    ELSE Authorized

\* verify_api_key; `credentials` is what HTTPBearer(auto_error=False) hands
\* over: Absent (None) without a bearer token, the token otherwise
verify_api_key(env, credentials) ==
    IF ~REQUIRE_AUTH(env) THEN Authorized
    ELSE IF MCP_API_KEY(env) \in {Absent, ""}
    THEN Denied(HTTPException(500, "Server configuration error"))
    ELSE IF credentials = Absent
    THEN Denied(HTTPException(401, "Authorization header required"))
    ELSE IF credentials # MCP_API_KEY(env)
    THEN Denied(HTTPException(401, "Invalid API key"))
    ELSE Authorized

\* the route's function is not called: FastAPI answers with the exception
Reject(path, credentials, exception) ==
    /\ http' = HttpRequest(path, credentials)
    /\ response' = exception
    /\ request' = NoRequest
    /\ upstream' = "none"
    /\ invoked' = None
    /\ UNCHANGED <<tool_manager, tool_manager_tools, failed, firstList, nLists,
                   sinceList, environ, serverVars>>

\* a route that answers without reading the request body
Serve(path, credentials, content) ==
    /\ http' = HttpRequest(path, credentials)
    /\ response' = JSONResponse(content)
    /\ request' = NoRequest
    /\ upstream' = "none"
    /\ invoked' = None
    /\ UNCHANGED <<tool_manager, tool_manager_tools, failed, firstList, nLists,
                   sinceList, environ, serverVars>>

\* {"status": "healthy", "service": "freshdesk-mcp"}
health_check ==
    [keys |-> {"status", "service"}, status |-> "healthy",
     service |-> "freshdesk-mcp"]

\* debug_tools: {"tools": [...], "count": n}, or {"error": str(e)}
debug_tools(manager, tools) ==
    IF manager = NoTools
    THEN [keys |-> {"error"}, tools |-> <<>>, count |-> 0]
    ELSE LET names == IF manager = ToolManager THEN tools ELSE <<>>
         IN  [keys |-> {"tools", "count"}, tools |-> names, count |-> Len(names)]

\* root: the service description, which tells whether credentials are needed
root(env) ==
    [keys |-> {"service", "version", "authentication", "endpoints"},
     authentication |->
        [authentication_required |-> REQUIRE_AUTH(env),
         auth_method |-> IF REQUIRE_AUTH(env) THEN "Bearer token" ELSE "None"]]

\* the Authorization header: none, the configured key, another token
Credentials == {Absent, "secret", "wrong"}

AuthEnvirons ==
    {Environ("key", "example.freshdesk.com", k, r) :
        k \in {Absent, "", "secret"},
        r \in {Absent, "true", "True", "false", "FALSE", "1"}}

AuthBodies ==
    {OtherBody("invalid"),
     ObjectBody("initialize", "7", ParamsAbsent),
     ObjectBody("tools/list", "7", ParamsAbsent),
     ObjectBody("tools/call", "7",
        [EmptyDict EXCEPT !.name = "get_ticket_fields", !.arguments = Absent]),
     ObjectBody("resources/list", "7", ParamsAbsent)}

\* POST /mcp: mcp_handler runs only when verify_api_key returned
PostMcp ==
    \E body \in AuthBodies, credentials \in Credentials :
        LET gate == verify_api_key(environ, credentials)
        IN  IF gate.ok
            THEN \E up \in IF body.json = "object" /\ body.method = "tools/call"
                              /\ Contacts(tool_manager_tools,
                                          get(params_of(body).name, None),
                                          get(params_of(body).arguments, "{}"))
                           THEN Upstream ELSE {"none"} :
                    /\ Dispatch(body, up)
                    /\ http' = HttpRequest("/mcp", credentials)
                    /\ UNCHANGED <<environ, serverVars>>
            ELSE Reject("/mcp", credentials, gate.raised)

\* GET /debug/tools
GetDebugTools ==
    \E credentials \in Credentials :
        LET gate == verify_api_key(environ, credentials)
        IN  IF gate.ok
            THEN Serve("/debug/tools", credentials,
                       debug_tools(tool_manager, tool_manager_tools))
            ELSE Reject("/debug/tools", credentials, gate.raised)

\* GET /health
GetHealth ==
    \E credentials \in Credentials : Serve("/health", credentials, health_check)

\* GET /
GetRoot ==
    \E credentials \in Credentials : Serve("/", credentials, root(environ))

InitAuth ==
    /\ DispatcherInit
    /\ environ \in AuthEnvirons
    /\ http = NoHttpRequest
    /\ ServerInit

NextAuth ==
    \/ PostMcp
    \/ GetDebugTools
    \/ GetHealth
    \/ GetRoot

SpecAuth == InitAuth /\ [][NextAuth]_vars


\* ------------------------------------------------------------------ start-up
\* a slip: only an unset variable counts as missing
credentials_missing_unset_only(env) ==
    env.FRESHDESK_API_KEY = Absent \/ env.FRESHDESK_DOMAIN = Absent

\* not FRESHDESK_API_KEY or not FRESHDESK_DOMAIN
credentials_missing(env) ==
    env.FRESHDESK_API_KEY \in {Absent, ""} \/ env.FRESHDESK_DOMAIN \in {Absent, ""}

\* sys.argv[1:]
Argvs == {<<>>, <<"--tcp">>, <<"--http">>, <<"--sse">>}

\* the transport main() starts for sys.argv, Absent for an unknown argument
Transport(argv) ==
    IF Len(argv) = 0 THEN "stdio"
    ELSE IF argv[1] = "--tcp" THEN "tcp"
    ELSE IF argv[1] = "--http" THEN "http"
    ELSE Absent

StartEnvirons ==
    {Environ(k, d, Absent, "false") :
        k \in {Absent, "", "key"}, d \in {Absent, "", "example.freshdesk.com"}}

\* sys.exit(status), or the interpreter moving on to `pc`
Exit(status) ==
    /\ process' = Process("exited", process.argv, status)
    /\ UNCHANGED <<tool_manager, tool_manager_tools, request, upstream, response,
                   invoked, failed, firstList, nLists, sinceList, environ, http,
                   tasks, bridgeVars>>

\* the check of the environment at import
CheckEnvironment ==
    /\ process.pc = "import"
    /\ IF credentials_missing(environ)
       THEN Exit(1)
       ELSE /\ process' = Process("checked", process.argv, Running)
            /\ UNCHANGED <<tool_manager, tool_manager_tools, request, upstream,
                           response, invoked, failed, firstList, nLists, sinceList,
                           environ, http, tasks, bridgeVars>>

\* mcp = FastMCP("freshdesk-mcp"), which the module provides may raise
InitializeFastMCP ==
    /\ process.pc = "checked"
    /\ \/ /\ process' = Process("registering", process.argv, Running)
          /\ tool_manager' = ToolManager
          /\ UNCHANGED <<tool_manager_tools, request, upstream, response, invoked,
                         failed, firstList, nLists, sinceList, environ, http, tasks,
                         bridgeVars>>
       \/ Exit(1)

\* one @mcp.tool() decorator runs
Register ==
    /\ process.pc = "registering"
    /\ Len(tool_manager_tools) < Len(RegisteredTools)
    /\ tool_manager_tools' =
            Append(tool_manager_tools, RegisteredTools[Len(tool_manager_tools) + 1])
    /\ UNCHANGED <<tool_manager, request, upstream, response, invoked, failed,
                   firstList, nLists, sinceList, environ, http, process, tasks,
                   bridgeVars>>

\* main(): the transport starts serving, or mcp.run / uvicorn.run raises, or
\* the argument is unknown
Main ==
    /\ process.pc = "registering"
    /\ Len(tool_manager_tools) = Len(RegisteredTools)
    /\ \/ /\ Transport(process.argv) # Absent
          /\ process' = Process("serving", process.argv, Running)
          /\ UNCHANGED <<tool_manager, tool_manager_tools, request, upstream,
                         response, invoked, failed, firstList, nLists, sinceList,
                         environ, http, tasks, bridgeVars>>
       \/ Exit(1)

\* uvicorn serves the app of create_http_app
ServeHttp ==
    /\ process.pc = "serving"
    /\ Transport(process.argv) = "http"
    /\ PostMcp

\* mcp.run(transport=...) serves: FastMCP calls a registered tool itself
ServeTransport ==
    /\ process.pc = "serving"
    /\ Transport(process.argv) \in {"stdio", "tcp"}
    /\ \E i \in 1..Len(tool_manager_tools), up \in Upstream :
        /\ invoked' = tool_manager_tools[i]
        /\ upstream' = up
    /\ UNCHANGED <<tool_manager, tool_manager_tools, request, response, failed,
                   firstList, nLists, sinceList, environ, http, process, tasks,
                   bridgeVars>>

InitStartup ==
    /\ tool_manager = NoAttribute
    /\ tool_manager_tools = <<>>
    /\ request = NoRequest
    /\ upstream = "none"
    /\ response = NoResponse
    /\ invoked = None
    /\ failed = None
    /\ firstList = <<>>
    /\ nLists = 0
    /\ sinceList = 0
    /\ environ \in StartEnvirons
    /\ http = NoHttpRequest
    /\ process \in {Process("import", argv, Running) : argv \in Argvs}
    /\ tasks = <<>>
    /\ BridgeInit

NextStartup ==
    \/ CheckEnvironment
    \/ InitializeFastMCP
    \/ Register
    \/ Main
    \/ ServeHttp
    \/ ServeTransport

SpecStartup == InitStartup /\ [][NextStartup]_vars


\* ------------------------------------------------------ requests in flight
\* uvicorn runs mcp_handler as one asyncio task per request.  A task is
\* "scheduled" until the loop runs it, "awaiting" while it is suspended in
\* `await tool_obj.run(tool_args)` on the upstream API's reply, "done" once it
\* has returned its response.  `hangs` tells that the upstream API never
\* answers this request.
Task(body, pc, hangs, resp) ==
    [body |-> body, pc |-> pc, hangs |-> hangs, response |-> resp]

ConcurrentBodies ==
    {ObjectBody("initialize", "7", ParamsAbsent),
     ObjectBody("tools/list", "7", ParamsAbsent),
     ObjectBody("tools/call", "7",
        [EmptyDict EXCEPT !.name = "get_ticket_fields", !.arguments = Absent]),
     ObjectBody("tools/call", "req-1",
        [EmptyDict EXCEPT !.name = "view_company", !.arguments = "complete"])}

\* whether the task of `body` suspends on the upstream API
Awaits(tools, body) ==
    /\ body.method = "tools/call"
    /\ Contacts(tools, get(params_of(body).name, None),
                get(params_of(body).arguments, "{}"))

\* mcp_handler on the registry this module builds, worked out once for each
\* body and each behaviour of the upstream API
Answers ==
    [body \in ConcurrentBodies, up \in Upstream \cup {"none"} |->
        mcp_handler(body, RegisteredTools, up)]

\* what the task of `body` returns
answer(body, tools, up) ==
    IF tools = RegisteredTools THEN Answers[body, up]
    ELSE mcp_handler(body, tools, up)

\* a slip: a suspended task is resumed only after the tasks that arrived
\* before it have answered
may_resume_in_arrival_order(ts, i) ==
    /\ ts[i].pc = "awaiting"
    /\ ~ts[i].hangs
    /\ \A j \in 1..(i - 1) : ts[j].pc = "done"

\* the event loop resumes a suspended task when its reply has arrived,
\* whatever the other tasks are doing
may_resume(ts, i) ==
    /\ ts[i].pc = "awaiting"
    /\ ~ts[i].hangs

\* a request arrives
Accept ==
    /\ Len(tasks) < MaxTasks
    /\ \E body \in ConcurrentBodies, hangs \in BOOLEAN :
        /\ hangs => Awaits(tool_manager_tools, body)
        /\ tasks' = Append(tasks, Task(body, "scheduled", hangs, NoResponse))
    /\ UNCHANGED <<tool_manager, tool_manager_tools, request, upstream, response,
                   invoked, failed, firstList, nLists, sinceList, environ, http,
                   process, bridgeVars>>

\* the loop runs task i up to its first suspension, or to its return
RunTask(i) ==
    /\ i <= Len(tasks)
    /\ tasks[i].pc = "scheduled"
    /\ LET body == tasks[i].body
           out == answer(body, tool_manager_tools, "none")
       IN  IF Awaits(tool_manager_tools, body)
           THEN /\ tasks' = [tasks EXCEPT ![i].pc = "awaiting"]
                /\ UNCHANGED tool_manager_tools
           ELSE /\ tasks' = [tasks EXCEPT ![i].pc = "done",
                                          ![i].response = out.response]
                /\ tool_manager_tools' = out.tools
    /\ UNCHANGED <<tool_manager, request, upstream, response, invoked, failed,
                   firstList, nLists, sinceList, environ, http, process, bridgeVars>>

\* the upstream API has answered task i: the task runs to its return
ResumeTask(i) ==
    /\ i <= Len(tasks)
    /\ may_resume(tasks, i)
    /\ \E up \in Upstream :
        LET out == answer(tasks[i].body, tool_manager_tools, up)
        IN  /\ tasks' = [tasks EXCEPT ![i].pc = "done",
                                      ![i].response = out.response]
            /\ tool_manager_tools' = out.tools
    /\ UNCHANGED <<tool_manager, request, upstream, response, invoked, failed,
                   firstList, nLists, sinceList, environ, http, process, bridgeVars>>

Run == \E i \in 1..MaxTasks : RunTask(i)

Resume == \E i \in 1..MaxTasks : ResumeTask(i)

NextConcurrent ==
    \/ Accept
    \/ Run
    \/ Resume

\* the loop does not leave ready tasks waiting for ever
SpecConcurrent ==
    /\ Init
    /\ [][NextConcurrent]_vars
    /\ WF_vars(Run)
    /\ WF_vars(Resume)


\* ---------------------------------------------------------------- the bridge
\* tools/mcp_bridge.py reads JSON-RPC messages from stdin, one a line, posts
\* each to http://localhost:8080/mcp and prints what comes back.  Lines and
\* HTTP bodies are texts.

\* str.strip()
RECURSIVE strip(_)
strip(text) ==
    IF Len(text) = 0 THEN text
    ELSE IF SubSeq(text, 1, 1) \in {" ", "\t", "\n"}
    THEN strip(SubSeq(text, 2, Len(text)))
    ELSE IF SubSeq(text, Len(text), Len(text)) \in {" ", "\t", "\n"}
    THEN strip(SubSeq(text, 1, Len(text) - 1))
    ELSE text

\* The type of the value json.loads makes of a text, Absent when it raises
\* JSONDecodeError.
pytype_of(text) ==
    LET n == Len(text)
        first == SubSeq(text, 1, 1)
        last == SubSeq(text, n, n)
    IN  IF n = 0 THEN Absent
        ELSE IF first = "{" /\ last = "}" THEN "dict"
        ELSE IF first = "[" /\ last = "]" THEN "list"
        ELSE IF \A k \in 1..n : DigitValue(SubSeq(text, k, k)) >= 0 THEN "int"
        ELSE Absent

\* the texts pieces[lo..hi] joined
RECURSIVE join(_, _, _)
join(pieces, lo, hi) ==
    IF lo > hi THEN ""
    ELSE IF lo = hi THEN pieces[lo]
    ELSE LET mid == (lo + hi) \div 2
         IN  join(pieces, lo, mid) \o join(pieces, mid + 1, hi)

\* A JSON text written again: white space between tokens dropped, `sep`
\* put after each "," and ":".  A character is inside a string when an odd
\* number of quotes comes before it.
rewrite(text, sep) ==
    LET n == Len(text)
        quotes == {k \in 1..n : SubSeq(text, k, k) = "\""}
        in_string(k) == Cardinality({q \in quotes : q < k}) % 2 = 1
        piece(k) ==
            LET c == SubSeq(text, k, k)
            IN  IF in_string(k) THEN c
                ELSE IF c \in {" ", "\t", "\n"} THEN ""
                ELSE IF c \in {",", ":"} THEN c \o sep
                ELSE c
    IN  join([k \in 1..n |-> piece(k)], 1, n)

\* json.loads(text) and response.json(): the value, held as its compact text
json_value(text) == rewrite(text, "")

\* json.dumps(value): one line, ", " and ": " between tokens
dumps_line(value) == rewrite(value, " ")

\* where `pattern` first starts in `text`, 0 when it is not there
find(text, pattern) ==
    LET m == Len(pattern)
        starts == {k \in 1..(Len(text) - m + 1) : SubSeq(text, k, k + m - 1) = pattern}
    IN  IF starts = {} THEN 0
        ELSE CHOOSE k \in starts : \A other \in starts : k <= other

\* the token that starts at `from` and ends before "," or "}"
token(text, from) ==
    LET ends == {k \in from..Len(text) : SubSeq(text, k, k) \in {",", "}"}}
        end == IF ends = {} THEN Len(text) + 1
               ELSE CHOOSE k \in ends : \A other \in ends : k <= other
    IN  SubSeq(text, from, end - 1)

\* message.get(key) of a dict with scalar members, as JSON text; null when
\* the key is not there
message_get(value, key) ==
    LET pattern == "\"" \o key \o "\":"
        at == find(value, pattern)
    IN  IF at = 0 THEN "null" ELSE token(value, at + Len(pattern))

\* what client.post brings: a response, or an exception of httpx
HttpResponse(status_code, text) ==
    [raised |-> Absent, status_code |-> status_code, text |-> text]

HttpRaises(e) == [raised |-> e, status_code |-> 0, text |-> ""]

NoReply == HttpResponse(0, "")

Replies ==
    {HttpResponse(200, "{\"jsonrpc\":\"2.0\",\"id\":7,\"result\":{\"tools\":[]}}"),
     HttpResponse(200, "{\"jsonrpc\": \"2.0\",\n \"id\": 7,\n \"error\": {\"code\": -32601, \"message\": \"Method not found: x\"}}"),
     HttpResponse(200, "<html>"),
     HttpResponse(204, ""),
     HttpResponse(401, "{\"detail\":\"Authorization header required\"}"),
     HttpResponse(500, "Internal Server Error"),
     HttpRaises("timed out"),
     HttpRaises("All connection attempts failed")}

\* the error frame the bridge prints
error_line(msg_id, text) ==
    "{\"jsonrpc\": \"2.0\", \"id\": " \o msg_id
        \o ", \"error\": {\"code\": -32603, \"message\": \"" \o text \o "\"}}"

\* a slip: the body of a 200 reply is printed as it came
after_post_verbatim(message, reply) ==
    LET msg_id == message_get(message, "id")
    IN  IF reply.raised # Absent THEN <<error_line(msg_id, reply.raised)>>
        ELSE IF reply.status_code = 204 THEN <<>>
        ELSE IF reply.status_code = 200 THEN <<reply.text>>
        ELSE <<error_line(msg_id, "HTTP error " \o ToString(reply.status_code))>>

\* handle_message from the return of client.post on: the lines it prints
after_post(message, reply) ==
    LET msg_id == message_get(message, "id")
    IN  IF reply.raised # Absent THEN <<error_line(msg_id, reply.raised)>>
        ELSE IF reply.status_code = 204 THEN <<>>
        ELSE IF reply.status_code = 200
        THEN IF pytype_of(strip(reply.text)) = Absent
             THEN <<error_line(msg_id, "Expecting value: line 1 column 1 (char 0)")>>
             ELSE <<dumps_line(json_value(reply.text))>>
        ELSE <<error_line(msg_id, "HTTP error " \o ToString(reply.status_code))>>

\* handle_message up to client.post: "return" for a blank line, "logged" when
\* json.loads raised and the except clause finds no `message` to answer,
\* "escapes" when message.get raised in the try and again in the except
\* clause, "post" when the message is sent
before_post(line) ==
    IF strip(line) = "" THEN "return"
    ELSE IF pytype_of(line) = Absent THEN "logged"
    ELSE IF pytype_of(line) # "dict" THEN "escapes"
    ELSE "post"

\* the lines on stdin, as typed
BridgeLines ==
    {"  ",
     "{\"id\": 7",
     "[]",
     "42",
     "{\"jsonrpc\": \"2.0\", \"id\": 7, \"method\": \"tools/list\"}",
     "{\"jsonrpc\": \"2.0\", \"id\": 8, \"method\": \"tools/call\"} ",
     "{\"jsonrpc\": \"2.0\", \"method\": \"notifications/initialized\"}"}

Inputs == UNION {[1..n -> BridgeLines] : n \in 0..MaxLines}

\* the bridge process: `pc` is "start" before the health check, "reading"
\* in the for loop between two lines, "posting" inside handle_message while
\* client.post is awaited, "ended" after the loop, "exited" after sys.exit(1);
\* `read` counts the lines taken from stdin, `posted` the posts sent,
\* `handled` the calls of handle_message that are over; `line` is the line
\* taken last, stripped, and `reply` what its post brought
Bridge(pc, read, posted, handled, line, reply) ==
    [pc |-> pc, read |-> read, posted |-> posted, handled |-> handled,
     line |-> line, reply |-> reply]

\* print(..., flush=True) of each text, while line `n` is handled
Printed(n, texts) ==
    IF Len(texts) = 0 THEN <<>> ELSE <<[of |-> n, text |-> texts[1]]>>

\* a slip: the next line is taken while a post is still awaited
may_read_while_posting(b) == b.pc \in {"reading", "posting"}

\* `for line in sys.stdin` takes a line only between two calls of
\* handle_message, each awaited to its end
may_read(b) == b.pc = "reading"

\* GET /health: any response lets the bridge go on, an exception ends it
StartBridge ==
    /\ bridge.pc = "start"
    /\ \E healthy \in BOOLEAN :
        bridge' = [bridge EXCEPT !.pc = IF healthy THEN "reading" ELSE "exited"]
    /\ UNCHANGED <<tool_manager, tool_manager_tools, request, upstream, response,
                   invoked, failed, firstList, nLists, sinceList, environ, http,
                   process, tasks, stdin, stdout>>

\* the loop takes a line and handle_message runs up to its post
ReadLine ==
    /\ may_read(bridge)
    /\ Len(stdin) > 0
    /\ LET line == strip(Head(stdin))
           step == before_post(line)
       IN  bridge' =
             CASE step = "post" ->
                    Bridge("posting", bridge.read + 1, bridge.posted + 1,
                           bridge.handled, line, NoReply)
               [] step = "escapes" ->
                    Bridge("ended", bridge.read + 1, bridge.posted,
                           bridge.handled + 1, line, NoReply)
               [] OTHER ->
                    Bridge("reading", bridge.read + 1, bridge.posted,
                           bridge.handled + 1, line, NoReply)
    /\ stdin' = Tail(stdin)
    /\ UNCHANGED <<tool_manager, tool_manager_tools, request, upstream, response,
                   invoked, failed, firstList, nLists, sinceList, environ, http,
                   process, tasks, stdout>>

\* client.post returns or raises, and handle_message runs to its end
Reply ==
    /\ bridge.pc = "posting"
    /\ \E reply \in Replies :
        /\ stdout' = stdout \o Printed(bridge.read,
                                        after_post(json_value(bridge.line), reply))
        /\ bridge' = [bridge EXCEPT !.pc = "reading", !.reply = reply,
                                    !.handled = bridge.handled + 1]
    /\ UNCHANGED <<tool_manager, tool_manager_tools, request, upstream, response,
                   invoked, failed, firstList, nLists, sinceList, environ, http,
                   process, tasks, stdin>>

\* end of input: the loop is over and main returns
EndOfInput ==
    /\ bridge.pc = "reading"
    /\ Len(stdin) = 0
    /\ bridge' = [bridge EXCEPT !.pc = "ended"]
    /\ UNCHANGED <<tool_manager, tool_manager_tools, request, upstream, response,
                   invoked, failed, firstList, nLists, sinceList, environ, http,
                   process, tasks, stdin, stdout>>

InitBridge ==
    /\ DispatcherInit
    /\ environ = OpenEnviron
    /\ http = NoHttpRequest
    /\ process = ServingHttp
    /\ tasks = <<>>
    /\ stdin \in Inputs
    /\ stdout = <<>>
    /\ bridge = Bridge("start", 0, 0, 0, "", NoReply)

NextBridge ==
    \/ StartBridge
    \/ ReadLine
    \/ Reply
    \/ EndOfInput

SpecBridge == InitBridge /\ [][NextBridge]_vars


\* ------------------------------------------------------------------ claims
Handled == request # NoRequest

IsObject == request.json = "object"

Method == get(request.method, None)

HasPrefix(text, prefix) ==
    Len(text) >= Len(prefix) /\ SubSeq(text, 1, Len(prefix)) = prefix

\* the request handled last is a JSON object whose method starts with
\* "notifications/"
IsNotification ==
    IsObject /\ request.method # Absent /\ HasPrefix(request.method, "notifications/")

IsCall == IsObject /\ Method = "tools/call" /\ params_of(request).kind = "dict"

CallName == get(params_of(request).name, None)

CallArgs == get(params_of(request).arguments, "{}")

Frame == response.content

IsResult ==
    /\ response.kind = "JSONResponse"
    /\ Frame.keys = {"jsonrpc", "id", "result"}
    /\ Frame.result # NoResult

IsError ==
    /\ response.kind = "JSONResponse"
    /\ Frame.keys = {"jsonrpc", "id", "error"}
    /\ Frame.error.code \in {-32601, -32603}
    /\ Frame.error.message # Absent

IsNoBody == response = Response204

\* C1: every body posted to /mcp is answered by a well-formed result, a
\* well-formed -32601/-32603 error or (for the notification) the no-body
\* outcome; no exception leaves mcp_handler.
C1_TotalDispatch ==
    Handled => /\ response.kind # "raise"
               /\ IsResult \/ IsError \/ IsNoBody

\* C2: a request object whose method is not a notification gets one 200
\* answer, a result or an error, whose id is the request's id (null when the
\* request carries none), on every branch.
C2_ResponseEchoesId ==
    (IsObject /\ ~IsNotification) =>
        /\ response.kind = "JSONResponse"
        /\ IsResult \/ IsError
        /\ Frame.id = get(request.id, None)

C2_Witness ==
    /\ IsCall
    /\ request.id = "req-1"
    /\ invoked = "list_solution_folders"
    /\ IsExecutionError(response)

\* C3: a request whose method starts with "notifications/" gets the no-body
\* outcome, never a result or an error frame.
C3_NotificationsSilent == IsNotification => IsNoBody

\* C4: notifications/initialized gets 204 and no frame, with or without an id.
C4_InitializedNoBody ==
    (IsObject /\ Method = "notifications/initialized") =>
        /\ response.kind = "Response"
        /\ response.status_code = 204
        /\ Frame = NoFrame
        /\ ~IsResult /\ ~IsError

C4_Witness ==
    /\ IsObject
    /\ Method = "notifications/initialized"
    /\ request.id = "7"
    /\ response.status_code = 204

\* C5: when the handler called by tools/call raises, the answer is the error
\* -32603 "Tool execution error: {message}" with the request's id, nothing
\* leaves mcp_handler, and the next request can still be handled.
C5_HandlerRaiseIsExecutionError ==
    (IsCall /\ invoked # None /\ run(Tool(invoked), CallArgs, upstream).raised) =>
        /\ response =
             JSONResponse(ErrorFrame(get(request.id, None), -32603,
                 "Tool execution error: "
                     \o run(Tool(invoked), CallArgs, upstream).value))
        /\ response.kind # "raise"

C5_Witness ==
    /\ IsCall
    /\ invoked = "get_ticket_fields"
    /\ upstream = "connect_error"
    /\ IsExecutionError(response)
    /\ request.id = "7"

\* C6: tools/call with a name that is no key of the registry gets the error
\* -32601 "Tool not found: {name}", and no handler is called.
C6_ToolNotFound ==
    (IsCall /\ CallName \notin ToolNames(tool_manager_tools)) =>
        /\ response =
             JSONResponse(ErrorFrame(get(request.id, None), -32601,
                 "Tool not found: " \o str(CallName)))
        /\ invoked = None

\* C7: a tools/call whose handler raised or whose upstream HTTP call failed
\* is answered by an error -32603, never by a result frame.
C7_UpstreamFailureIsError ==
    (IsCall /\ invoked # None
        /\ (\/ run(Tool(invoked), CallArgs, upstream).raised
            \/ upstream \in {"http_error", "connect_error"})) =>
        /\ IsExecutionError(response)
        /\ "result" \notin Frame.keys

\* C8: once a tools/call of a tool has ended in -32603, tools/list still
\* lists that tool and every other one with the schemas of the start, and a
\* tools/call of a registered tool reaches that tool's handler and is
\* answered as a server that saw no failure answers it.
C8_Isolation ==
    failed # None =>
        /\ (IsObject /\ Method = "tools/list") =>
              /\ IsResult
              /\ Frame.result.tools = ToolsArray(RegisteredTools)
              /\ \E i \in 1..Len(Frame.result.tools) :
                     Frame.result.tools[i].name = failed
        /\ (IsCall /\ CallName \in ToolNames(RegisteredTools)) =>
              /\ invoked = CallName
              /\ response = mcp_handler(request, RegisteredTools, upstream).response

C8_Witness ==
    /\ failed = "list_solution_folders"
    /\ IsObject /\ Method = "tools/list"
    /\ IsResult

\* C9: every tools/list answer carries the tools array of the first one,
\* whatever requests came between them.
C9_ListDeterminism ==
    (IsObject /\ Method = "tools/list" /\ nLists >= 1) =>
        /\ IsResult
        /\ Frame.result.tools = firstList

C9_Witness ==
    /\ IsObject /\ Method = "tools/list"
    /\ nLists = 2
    /\ sinceList >= 1
    /\ failed # None

NoDefault(tool_obj) ==
    {tool_obj.parameters[k].name :
        k \in {j \in 1..Len(tool_obj.parameters) :
                  tool_obj.parameters[j].default = Parameter_empty}}

Range(seq) == {seq[k] : k \in 1..Len(seq)}

\* C10: in a tools/list answer every registered tool has an entry, and the
\* required list of its inputSchema holds exactly the names of the handler's
\* parameters that have no default, each once.
C10_RequiredRoundTrip ==
    (IsObject /\ Method = "tools/list") =>
        /\ IsResult
        /\ Len(Frame.result.tools) = Len(tool_manager_tools)
        /\ \A i \in 1..Len(Frame.result.tools) :
              LET entry == Frame.result.tools[i]
                  required == entry.inputSchema.required
              IN  /\ entry.name = tool_manager_tools[i]
                  /\ Range(required) = NoDefault(Tool(entry.name))
                  /\ Cardinality(Range(required)) = Len(required)

C10_Witness ==
    /\ IsObject /\ Method = "tools/list"
    /\ IsResult
    /\ \E i \in 1..Len(Frame.result.tools) :
          LET schema == Frame.result.tools[i].inputSchema
          IN  /\ schema.required # <<>>
              /\ Len(schema.required) < Len(schema.properties)

IsList == IsObject /\ Method = "tools/list"

EntryNames == {Frame.result.tools[i].name : i \in 1..Len(Frame.result.tools)}

Declared(tool_obj) ==
    SelectSeq(tool_obj.parameters, LAMBDA p : p.name \notin {"self", "cls"})

PropertyNames(entry) ==
    {entry.inputSchema.properties[q].name :
        q \in 1..Len(entry.inputSchema.properties)}

C13_ListNeverFails ==
    IsList =>
        /\ IsResult
        /\ ~IsError
        /\ Frame.keys = {"jsonrpc", "id", "result"}
        /\ Frame.result.keys = {"tools"}
        /\ (tool_manager # ToolManager \/ tool_manager_tools = <<>>) =>
               Frame.result.tools = <<>>

C13_Witness ==
    /\ IsList
    /\ tool_manager = NoTools
    /\ IsResult
    /\ Frame.result.tools = <<>>
    /\ request.id = "req-1"

IsInternalError ==
    /\ IsError
    /\ Frame.error.code = -32603
    /\ HasPrefix(Frame.error.message, "Internal error: ")

\* C14: a body that cannot be processed is answered by the error -32603
\* "Internal error: {message}": with a null id when the body is not a JSON
\* object (invalid JSON, an array, a number), with the request's id when it
\* is an object whose params the method cannot read.
C14_MalformedInput ==
    /\ (Handled /\ ~IsObject) =>
           /\ IsInternalError
           /\ Frame.id = None
    /\ (IsObject /\ Method \in {"initialize", "tools/call"}
           /\ params_of(request).kind # "dict") =>
           /\ IsInternalError
           /\ Frame.id = get(request.id, None)

KnownMethods ==
    {"initialize", "notifications/initialized", "tools/list", "tools/call",
     "prompts/list"}

\* C15: a request whose method is none of the five the handler knows, or
\* that has no method, is answered by the error -32601
\* "Method not found: {method}" with the request's id; no tool is run and the
\* registry is as it was at start-up.
C15_MethodNotFound ==
    (IsObject /\ Method \notin KnownMethods) =>
        /\ response =
             JSONResponse(ErrorFrame(get(request.id, None), -32601,
                 "Method not found: " \o str(Method)))
        /\ invoked = None
        /\ tool_manager_tools = RegisteredTools

C15_Witness ==
    /\ IsObject
    /\ request.method = Absent
    /\ request.id = "7"
    /\ IsError
    /\ Frame.error.message = "Method not found: None"

\* C16: initialize with a protocolVersion in its params is answered by a
\* result carrying that protocolVersion, capabilities with exactly the keys
\* tools and prompts, and the serverInfo freshdesk-mcp 1.2.0, whatever
\* requests came before.
C16_InitializeEchoesVersion ==
    (IsObject /\ Method = "initialize" /\ params_of(request).kind = "dict"
        /\ params_of(request).protocolVersion # Absent) =>
        /\ IsResult
        /\ Frame.result.keys = {"protocolVersion", "capabilities", "serverInfo"}
        /\ Frame.result.protocolVersion = request.params.protocolVersion
        /\ Frame.result.capabilities = {"tools", "prompts"}
        /\ Frame.result.serverInfo =
              [name |-> "freshdesk-mcp", version |-> "1.2.0"]

C16_Witness ==
    /\ IsObject /\ Method = "initialize"
    /\ params_of(request).protocolVersion = "2025-06-18"
    /\ Frame.result.protocolVersion = "2025-06-18"
    /\ nLists >= 1
    /\ failed # None

\* C17: every frame mcp_handler sends has exactly one of the keys result and
\* error, with a value under it, and the code of an error is -32601 or
\* -32603.
C17_ExactlyOneOfResultError ==
    response.kind = "JSONResponse" =>
        /\ ("result" \in Frame.keys) # ("error" \in Frame.keys)
        /\ "result" \in Frame.keys =>
              (Frame.result # NoResult /\ Frame.error = NoError)
        /\ "error" \in Frame.keys =>
              /\ Frame.error.code \in {-32601, -32603}
              /\ Frame.error.message # Absent
              /\ Frame.result = NoResult

C17_Witness ==
    /\ response.kind = "JSONResponse"
    /\ "error" \in Frame.keys
    /\ "result" \notin Frame.keys
    /\ Frame.error.code = -32601
    /\ IsCall
    /\ nLists >= 1

\* C18: no request changes the registry (the manager, the names, their
\* order), and the answer to a request is the one a server that has handled
\* nothing yet gives to it.
C18_RegistryUntouched ==
    [][/\ tool_manager' = tool_manager
       /\ tool_manager_tools' = tool_manager_tools
       /\ response' = mcp_handler(request', RegisteredTools, upstream').response
      ]_vars

C18_Witness ==
    /\ nLists = 2
    /\ failed # None
    /\ IsCall /\ IsResult
    /\ tool_manager_tools = RegisteredTools

\* C19: the result of a tools/call has the single key content, a list of one
\* block of type text; its text is the JSON encoding of what the handler
\* returned when that is a dict or a list, and the returned text itself when
\* it is a str.
C19_ResultIsOneTextBlock ==
    (IsCall /\ IsResult) =>
        LET result == run(Tool(invoked), CallArgs, upstream)
        IN  /\ Frame.result.keys = {"content"}
            /\ Len(Frame.result.content) = 1
            /\ Frame.result.content[1].type = "text"
            /\ result.pytype \in {"dict", "list"} =>
                  Frame.result.content[1].text = json_dumps(result.value)
            /\ result.pytype = "str" =>
                  Frame.result.content[1].text = result.value

C19_Witness ==
    /\ IsCall /\ IsResult
    /\ invoked = "create_ticket"
    /\ upstream = "ok"
    /\ Frame.result.content = <<[type |-> "text", text |-> "Ticket created successfully"]>>

TypeTags == {"string", "integer", "number", "boolean", "object", "array"}

Recognized ==
    {"int", "float", "bool", "dict", "Dict[str, Any]", "list", "List[Any]", "str"}

ParamNamed(tool_obj, name) ==
    CHOOSE p \in Range(tool_obj.parameters) : p.name = name

\* C20: in a tools/list answer the type of every property is one of the six
\* tags; it is string for a parameter without annotation or with one the
\* mapping does not know; and for Optional[X] it is the tag that X gets.
C20_TypeTags ==
    IsList =>
        \A i \in 1..Len(Frame.result.tools) :
            LET entry == Frame.result.tools[i] IN
            \A q \in 1..Len(entry.inputSchema.properties) :
                LET property == entry.inputSchema.properties[q]
                    annotation ==
                        ParamNamed(Tool(entry.name), property.name).annotation
                IN  /\ property.type \in TypeTags
                    /\ (~IsOptional(annotation) /\ annotation \notin Recognized) =>
                           property.type = "string"
                    /\ IsOptional(annotation) =>
                           property.type = json_type(OptionalArg(annotation))

C20_Witness ==
    /\ IsList /\ IsResult
    /\ \E i \in 1..Len(Frame.result.tools) :
          LET properties == Range(Frame.result.tools[i].inputSchema.properties)
          IN  /\ [name |-> "maybe_ratio", type |-> "number"] \in properties
              /\ [name |-> "maybe_flag", type |-> "boolean"] \in properties
              /\ [name |-> "maybe_items", type |-> "array"] \in properties
              /\ [name |-> "maybe_ids", type |-> "string"] \in properties
              /\ [name |-> "bare", type |-> "string"] \in properties
              /\ [name |-> "ids", type |-> "string"] \in properties

\* C22: prompts/list is answered by a result whose only key is prompts, an
\* empty array, although the module registers two prompts and whatever
\* requests came before.
C22_PromptsListEmpty ==
    (IsObject /\ Method = "prompts/list") =>
        /\ IsResult
        /\ Frame.result.keys = {"prompts"}
        /\ Frame.result.prompts = <<>>
        /\ Frame.id = get(request.id, None)

C22_Witness ==
    /\ IsObject /\ Method = "prompts/list"
    /\ IsResult
    /\ Frame.result.prompts = <<>>
    /\ RegisteredPrompts # <<>>
    /\ nLists >= 1
    /\ failed # None

NamesOf(properties) == [q \in 1..Len(properties) |-> properties[q].name]

DeclaredNames(tool_obj) ==
    [k \in 1..Len(Declared(tool_obj)) |-> Declared(tool_obj)[k].name]

\* the names of `all` that are in `kept`, in the order of `all`
InOrder(all, kept) == SelectSeq(all, LAMBDA name : name \in Range(kept))

\* C26: in a tools/list answer every inputSchema has type object, property
\* names and required names that follow the order of the signature without
\* repetition, every required name among the properties, and neither self
\* nor cls; also for a tool whose introspection stopped part-way.
C26_SchemaShape ==
    IsList =>
        \A i \in 1..Len(Frame.result.tools) :
            LET entry == Frame.result.tools[i]
                schema == entry.inputSchema
                names == NamesOf(schema.properties)
                declared == DeclaredNames(Tool(entry.name))
            IN  /\ schema.type = "object"
                /\ Range(schema.required) \subseteq Range(names)
                /\ names = InOrder(declared, names)
                /\ schema.required = InOrder(declared, schema.required)
                /\ Cardinality(Range(names)) = Len(names)
                /\ Cardinality(Range(schema.required)) = Len(schema.required)
                /\ Range(names) \cap {"self", "cls"} = {}

C26_Witness ==
    /\ IsList /\ IsResult
    /\ \E i, j \in 1..Len(Frame.result.tools) :
          /\ Frame.result.tools[i].name = "array_default"
          /\ NamesOf(Frame.result.tools[i].inputSchema.properties)
                = <<"first", "second">>
          /\ Frame.result.tools[i].inputSchema.required = <<"first">>
          /\ Frame.result.tools[j].name = "every_type"
          /\ Len(Frame.result.tools[j].inputSchema.properties) = 12

IsTicketCall ==
    IsCall /\ CallName = "create_ticket" /\ CallArgs \notin {"{}", "complete"}

\* the values that are integers or the text of one, and the integer each is
Converted ==
    ("1" :> 1) @@ ("2" :> 2) @@ ("4" :> 4) @@ ("'2'" :> 2) @@ ("'4'" :> 4)
        @@ ("'5'" :> 5)

RequesterGiven(a) ==
    a.email \notin {None, "''"} \/ a.requester_id \notin {None, "0"}

AllConvert(a) == {a.source, a.priority, a.status} \subseteq DOMAIN Converted

AllMembers(a) ==
    /\ Converted[a.source] \in {1, 2, 3, 7, 9, 10}
    /\ Converted[a.priority] \in {1, 2, 3, 4}
    /\ Converted[a.status] \in {2, 3, 4, 5}

TicketText == Frame.result.content[1].text

\* C30: a tools/call of create_ticket is answered by a result, never by an
\* error.  Without email and requester_id the text is the requester error;
\* else, when source, priority or status is no integer, or is one outside
\* its enum, the text is the invalid-value error; in these cases no HTTP
\* request is sent, and one is sent in every other case.
C30_CreateTicketValidation ==
    IsTicketCall =>
        LET a == loads(CallArgs) IN
        /\ IsResult
        /\ Len(Frame.result.content) = 1
        /\ ~RequesterGiven(a) =>
              /\ TicketText = "Error: Either email or requester_id must be provided"
              /\ upstream = "none"
        /\ (RequesterGiven(a) /\ ~AllConvert(a)) =>
              /\ TicketText = "Error: Invalid value for source, priority, or status"
              /\ upstream = "none"
        /\ (RequesterGiven(a) /\ AllConvert(a) /\ ~AllMembers(a)) =>
              /\ TicketText = "Error: Invalid value for source, priority, or status"
              /\ upstream = "none"
        /\ (RequesterGiven(a) /\ AllConvert(a) /\ AllMembers(a)) =>
              upstream \in Upstream

C30_Witness ==
    /\ IsTicketCall
    /\ loads(CallArgs).email = None
    /\ loads(CallArgs).requester_id = "0"
    /\ loads(CallArgs).source = "'phone'"
    /\ loads(CallArgs).status = "1"
    /\ IsResult
    /\ TicketText = "Error: Either email or requester_id must be provided"
    /\ upstream = "none"

\* C27: on /mcp and /debug/tools a request gets past the gate only when
\* authentication is not required or it carries a bearer credential equal to
\* MCP_API_KEY; with authentication required, an unset MCP_API_KEY answers
\* 500 to every request, a missing or mismatching credential answers 401, and
\* in those cases no body reaches mcp_handler and no tool is invoked; /health
\* and / answer 200 whatever the credentials.
AuthRequired ==
    environ.MCP_REQUIRE_AUTH \in {Absent, "true", "True"}

KeyUnset == environ.MCP_API_KEY \in {Absent, ""}

CredentialMatches ==
    http.credentials # Absent /\ http.credentials = environ.MCP_API_KEY

Gated == http.path \in {"/mcp", "/debug/tools"}

NothingDispatched ==
    /\ request = NoRequest
    /\ invoked = None
    /\ response.kind = "HTTPException"

C27_AuthGate ==
    /\ (Gated /\ response.kind # "HTTPException")
            => (~AuthRequired \/ CredentialMatches)
    /\ (Gated /\ AuthRequired /\ KeyUnset)
            => (response.status_code = 500 /\ NothingDispatched)
    /\ (Gated /\ AuthRequired /\ ~KeyUnset /\ ~CredentialMatches)
            => (response.status_code = 401 /\ NothingDispatched)
    /\ (Gated /\ (~AuthRequired \/ (~KeyUnset /\ CredentialMatches)))
            => response.kind # "HTTPException"
    /\ http.path \in {"/health", "/"}
            => (response.kind = "JSONResponse" /\ response.status_code = 200)

C27_Witness ==
    /\ http = HttpRequest("/mcp", "wrong")
    /\ environ.MCP_REQUIRE_AUTH = "True"
    /\ environ.MCP_API_KEY = "secret"
    /\ response.status_code = 401
    /\ nLists > 0

\* C25: a process started with FRESHDESK_API_KEY or FRESHDESK_DOMAIN missing
\* or empty leaves the import by exiting with status 1: it registers no tool,
\* starts no transport and dispatches no request.
MissingCredentials ==
    \/ environ.FRESHDESK_API_KEY \in {Absent, ""}
    \/ environ.FRESHDESK_DOMAIN \in {Absent, ""}

C25_NothingStarted ==
    MissingCredentials =>
        /\ process.pc \in {"import", "exited"}
        /\ process.pc = "exited" => process.status = 1
        /\ tool_manager = NoAttribute
        /\ tool_manager_tools = <<>>
        /\ request = NoRequest
        /\ invoked = None
        /\ response = NoResponse

C25_ExitsFirst ==
    (MissingCredentials /\ process.pc = "import")
        => (process'.pc = "exited" /\ process'.status = 1)

C25_StartupOrdering == []C25_NothingStarted /\ [][C25_ExitsFirst]_vars

C25_Witness ==
    /\ environ.FRESHDESK_API_KEY = "key"
    /\ environ.FRESHDESK_DOMAIN = ""
    /\ process = Process("exited", <<"--http">>, 1)

\* C21: every request in flight whose own upstream call does not hang is
\* eventually answered, whatever the other requests in flight are doing and
\* in whatever order they arrived: a tools/call that never returns holds back
\* its own response only.
Answered(i) == Len(tasks) >= i /\ tasks[i].pc = "done"

InFlight(i) == Len(tasks) >= i /\ ~tasks[i].hangs

C21_HungCallBlocksOnlyItself ==
    \A i \in 1..MaxTasks : InFlight(i) ~> Answered(i)

C21_Witness ==
    /\ Len(tasks) = 2
    /\ tasks[1].body.params.name = "get_ticket_fields"
    /\ tasks[1].hangs /\ tasks[1].pc = "awaiting"
    /\ tasks[2].body.params.name = "view_company"
    /\ tasks[2].pc = "done" /\ "result" \in tasks[2].response.content.keys

\* ---- the bridge
\* the lines printed while input line n was handled
LinesFor(n) == SelectSeq(stdout, LAMBDA e : e.of = n)

\* the handling of the line taken last is over
HandledLine == bridge.read > 0 /\ bridge.handled = bridge.read

\* the line taken last was posted and the post brought a response
Relayed == HandledLine /\ bridge.reply # NoReply /\ bridge.reply.raised = Absent

\* the id member of the line taken last, as JSON text
OriginalId ==
    IF find(bridge.line, "\"id\": 7") # 0 THEN "7"
    ELSE IF find(bridge.line, "\"id\": 8") # 0 THEN "8"
    ELSE "null"

\* a JSON-RPC error frame of code -32603 for `id`
IsBridgeError(text, id) ==
    /\ HasPrefix(text, "{\"jsonrpc\": \"2.0\", \"id\": " \o id
                        \o ", \"error\": {\"code\": -32603, \"message\": \"")
    /\ SubSeq(text, Len(text) - 2, Len(text)) = "\"}}"
    /\ find(text, "\n") = 0

\* C23: once a posted message is handled, a 204 reply has printed nothing
\* for it, a 200 reply with a JSON body has printed that JSON value and
\* nothing else, on one line, and a reply of any other status has printed the
\* one error frame of code -32603 with the id of the message.
C23_RelayByStatus ==
    Relayed =>
        LET out == LinesFor(bridge.read)
            reply == bridge.reply
        IN  /\ reply.status_code = 204 => out = <<>>
            /\ (reply.status_code = 200 /\ pytype_of(strip(reply.text)) # Absent) =>
                    /\ Len(out) = 1
                    /\ json_value(out[1].text) = json_value(reply.text)
                    /\ find(out[1].text, "\n") = 0
            /\ reply.status_code \notin {200, 204} =>
                    /\ Len(out) = 1
                    /\ IsBridgeError(out[1].text, OriginalId)

C23_Witness ==
    /\ Relayed
    /\ bridge.reply.status_code = 200
    /\ find(bridge.reply.text, "\n") # 0
    /\ Len(LinesFor(bridge.read)) = 1
    /\ bridge.read = 2
    /\ Len(LinesFor(1)) = 0

\* C24: a line that is not JSON, a line that is JSON but not an object, and a
\* request (a message with an id) whose post timed out or could not connect
\* each get exactly one JSON-RPC error line once handled.
MalformedLine == bridge.line # "" /\ pytype_of(bridge.line) # "dict"

FailedPost ==
    bridge.reply.raised # Absent /\ OriginalId # "null"

C24_NeverSilent ==
    (HandledLine /\ (MalformedLine \/ FailedPost)) =>
        /\ Len(LinesFor(bridge.read)) = 1
        /\ \E id \in {"null", "7", "8"} : IsBridgeError(LinesFor(bridge.read)[1].text, id)

\* C28: the read loop ends only at the end of the input: whatever the lines
\* handled so far, the lines left on stdin are still to be read.
C28_LoopSurvives ==
    bridge.pc = "ended" => Len(stdin) = 0

\* C29: a line is taken only when the handling of the one before is over, so
\* at most one post is awaited at a time; each input line has at most one
\* output line, and the output lines come in the order of their input lines.
C29_OneAtATime ==
    /\ bridge.read - bridge.handled \in {0, 1}
    /\ bridge.pc = "posting" <=> bridge.read = bridge.handled + 1
    /\ bridge.posted <= bridge.read
    /\ \A n \in 1..MaxLines : Len(LinesFor(n)) <= 1
    /\ \A i, j \in 1..Len(stdout) : i < j => stdout[i].of < stdout[j].of

C29_Witness ==
    /\ bridge.pc = "ended"
    /\ Len(stdout) = 2
    /\ stdout[1].of = 1 /\ IsBridgeError(stdout[1].text, "7")
    /\ stdout[2].of = 2 /\ IsBridgeError(stdout[2].text, "8")

====
